---- MODULE Spec2Model ----
(***************************************************************************)
(* The risk engine (useRiskEngine) and the event bus (createEventBus) of   *)
(* src/src/pages/Index.tsx.                                                *)
(*                                                                         *)
(* React state is modelled as React keeps it: a hook holds the value of    *)
(* the last render (score, indicators, history) and a queue of the updater *)
(* functions passed to its setter since then (scoreQ, indQ, histQ).  A     *)
(* render folds each queue, in order, into the hook's value.  Closures     *)
(* (the history interval's callback, toggleIndicator) read the values of   *)
(* the last render.                                                        *)
(*                                                                         *)
(* The intervals of the engine's effects are kept as the browser keeps     *)
(* them: a set of active timers, each with the time until it is due.  The  *)
(* specifications that do not let time pass (no Advance step) let a tick   *)
(* fire at any moment; SpecTimers fires a tick only when it is due.        *)
(***************************************************************************)
EXTENDS Integers, Sequences, FiniteSets, TLC

\* ------------------------------------------------------------ bounds

\* Handler calls that may queue updates on one hook before React renders.
MaxPending == 1
\* History ticks in one run.
MaxTicks == 100
\* Events emitted in one run of the history specification.
MaxHistEvents == 1
\* Unsubscribe handles (closures returned by bus.on) created in one run.
MaxHandles == 3
\* Listener invocations within one emit.
MaxDeliveries == 6
\* Length to which a run of SIM_SWAP events from score 0 is counted.
MaxSimRun == 4
\* Handler calls that may queue updates on one hook before React renders, in
\* the specifications of batched updates.
MaxBatch == 2
\* Time units in one interval of 1000 ms.
Period == 2
\* History ticks in one run of the specifications that have other handlers
\* running between the ticks.
MaxFewTicks == 1

\* --------------------------------------------------- program constants

EventTypes ==
  {"SIM_SWAP", "VPN", "DEVICE_CHANGE", "LOCATION_MISMATCH", "TYPING_ANOMALY",
   "LARGE_TRANSFER"}

\* A weight table with the VPN and DEVICE_CHANGE weights exchanged.
WeightsExchanged ==
  [SIM_SWAP |-> 30, VPN |-> 20, DEVICE_CHANGE |-> 25, LOCATION_MISMATCH |-> 15,
   TYPING_ANOMALY |-> 10, LARGE_TRANSFER |-> 35]

\* riskConfig.weights
Weights ==
  [SIM_SWAP |-> 30, VPN |-> 25, DEVICE_CHANGE |-> 20, LOCATION_MISMATCH |-> 15,
   TYPING_ANOMALY |-> 10, LARGE_TRANSFER |-> 35]

\* The keys of the initial indicators object.
IndicatorKeys ==
  {"SIM_SWAP", "VPN", "DEVICE_CHANGE", "LOCATION_MISMATCH", "TYPING_ANOMALY"}

\* next.slice(-60)
HistoryCap == 60

\* clamp(s + weight, 0, 100)
ScoreMin == 0
ScoreMax == 100

\* riskConfig.thresholds.largeTransfer
largeTransfer == 50000

\* ------------------------------------------------------------ helpers

Min(a, b) == IF a < b THEN a ELSE b
Max(a, b) == IF a > b THEN a ELSE b

\* const clamp = (v, min, max) => Math.max(min, Math.min(max, v))
clamp(v, lo, hi) == Max(lo, Min(hi, v))

Range(s) == {s[i] : i \in DOMAIN s}

\* Math.floor(s * 0.9) in the place of Math.round.
MathFloor09(s) == (9 * s) \div 10

\* Math.round(s * 0.9) on an integer s in 0..100: the nearest integer, a half
\* rounded up.  For every such s the IEEE double s * 0.9 rounds as the exact
\* product 9s/10 does.
MathRound09(s) == (9 * s + 5) \div 10

\* arr.slice(0, n) in the place of arr.slice(-n): the first n elements.
SliceFirst(s, n) == IF Len(s) <= n THEN s ELSE SubSeq(s, 1, n)

\* arr.slice(-n): the last n elements (all of them when there are fewer).
SliceLast(s, n) ==
  IF Len(s) <= n THEN s ELSE SubSeq(s, Len(s) - n + 1, Len(s))

\* ------------------------------------------------------------- bands

\* A band text with the High Risk boundary above 70.
bandTextAbove70(v) ==
  IF v > 70 THEN "High Risk" ELSE IF v >= 31 THEN "Caution" ELSE "Safe"

\* RiskPanel: score >= 70 ? "High Risk" : score >= 31 ? "Caution" : "Safe"
bandText(v) ==
  IF v >= 70 THEN "High Risk" ELSE IF v >= 31 THEN "Caution" ELSE "Safe"

\* RiskPanel: score >= 70 ? "var(--risk-red)" : score >= 31 ?
\* "var(--risk-yellow)" : "var(--risk-green)"
panelBandColor(v) ==
  IF v >= 70 THEN "var(--risk-red)"
  ELSE IF v >= 31 THEN "var(--risk-yellow)" ELSE "var(--risk-green)"

\* Gauge: bandColor(v), two early returns and a default
gaugeBandColor(v) ==
  IF v >= 70 THEN "var(--risk-red)"
  ELSE IF v >= 31 THEN "var(--risk-yellow)" ELSE "var(--risk-green)"

\* PageShell: the band in the text of the screen-reader announcement
announcedBand(v) ==
  IF v >= 70 THEN "High Risk" ELSE IF v >= 31 THEN "Caution" ELSE "Safe"

\* ------------------------------------------------------------- state

VARIABLES
  mounted,     \* PageShell (and with it useRiskEngine) is mounted
  quiet,       \* the producers have stopped emitting (environment)
  score,       \* useState(0): the value of the last render
  scoreQ,      \* updaters passed to setScore since the last render
  indicators,  \* useState({...}): the value of the last render
  indQ,        \* updaters passed to setIndicators since the last render
  history,     \* useState([]): the value of the last render
  histQ,       \* updaters passed to setHistory since the last render
  ticks,       \* history ticks fired so far (the logical clock of Date.now())
  emitted,     \* events emitted so far, counted up to MaxHistEvents
  simRun,      \* SIM_SWAP events received in a row since the score was 0
  notice,      \* the last toggleIndicator call raised the VPN toast
  listeners,   \* the bus's Set of listeners, in insertion order
  handles,     \* the closures returned by bus.on: the listener each removes
  delivery,    \* what the last emit did: the listeners it found and invoked
  timers,      \* the active intervals: id, callback, time until it is due
  cleanup,     \* what the effects' cleanups hold: interval ids, the bus handle
  sinceSample, \* time since the last history tick, counted up to Period + 1
  payment      \* the last PaymentsPage.submit: its amount and what it emitted

vars ==
  <<mounted, quiet, score, scoreQ, indicators, indQ, history, histQ, ticks,
    emitted, simRun, notice, listeners, handles, delivery, timers, cleanup,
    sinceSample, payment>>

engineVars == <<score, scoreQ, indicators, indQ, history, histQ, ticks, notice>>
busVars == <<listeners, handles, delivery>>
timerVars == <<timers, cleanup, sinceSample>>

\* ------------------------------------------------------ state updaters

\* A listener that adds the weight without clamping.
EventUpdateUnclamped(s, w) == s + w

\* (s) => clamp(s + weight, 0, 100)
EventUpdate(s, w) == clamp(s + w, ScoreMin, ScoreMax)

\* A decay by the factor 0.99 in the place of 0.9.
DecayUpdateSlow(s) == Max(0, (99 * s + 50) \div 100)

\* (s) => Math.max(0, Math.round(s * 0.9))
DecayUpdate(s) == Max(0, MathRound09(s))

\* Updaters that start from the rendered score in the place of the value
\* React hands them.
ApplyScoreStale(u, s) ==
  IF u.op = "add" THEN EventUpdate(score, u.w) ELSE DecayUpdate(score)

ApplyScore(u, s) ==
  IF u.op = "add" THEN EventUpdate(s, u.w) ELSE DecayUpdate(s)

\* An updater that keeps only the indicator of the event.
SetIndicatorOnly(prev, k) == [x \in DOMAIN prev \cup {k} |-> x = k]

\* (prev) => ({ ...prev, [type]: true })
SetIndicator(prev, k) ==
  [x \in DOMAIN prev \cup {k} |-> IF x = k THEN TRUE ELSE prev[x]]

\* on ?? true in the place of on ?? !prev[key].
ToggleUpdateOn(prev, k, on) ==
  [x \in DOMAIN prev \cup {k} |-> IF x = k THEN on # "false" ELSE prev[x]]

\* (prev) => ({ ...prev, [key]: on ?? !prev[key] })
ToggleUpdate(prev, k, on) ==
  [x \in DOMAIN prev \cup {k} |->
     IF x = k
       THEN (IF on = "undefined" THEN ~prev[k] ELSE on = "true")
       ELSE prev[x]]

ApplyInd(u, prev) ==
  IF u.op = "set" THEN SetIndicator(prev, u.k) ELSE ToggleUpdate(prev, u.k, u.on)

\* (h) => [...h, { t: Date.now(), v: score }].slice(-60)
AppendSample(h, e) == SliceLast(Append(h, e), HistoryCap)

\* React processes a hook's queue in order, each updater on the result of
\* the one before it.
RECURSIVE FoldScore(_, _)
FoldScore(q, s) ==
  IF q = <<>> THEN s ELSE FoldScore(Tail(q), ApplyScore(Head(q), s))

RECURSIVE FoldInd(_, _)
FoldInd(q, prev) ==
  IF q = <<>> THEN prev ELSE FoldInd(Tail(q), ApplyInd(Head(q), prev))

RECURSIVE FoldHist(_, _)
FoldHist(q, h) ==
  IF q = <<>> THEN h ELSE FoldHist(Tail(q), AppendSample(h, Head(q)))

\* The value each hook holds once its queued updaters have run.
CurScore == FoldScore(scoreQ, score)
CurInd == FoldInd(indQ, indicators)
CurHist == FoldHist(histQ, history)

\* ------------------------------------------------------- the event bus

\* The engine's listener and the other callbacks a client may register.
EngineFn == "engine"
Fns == {"f1", "f2", "f3"}
\* A Set entry deleted while forEach is running.
Empty == "-"

\* What a callback does to the bus when it is invoked: nothing, bus.on(fn),
\* or a call of one of the nh unsubscribe handles made so far.
NoOp == [kind |-> "noop", fn |-> Empty, h |-> 0]
BusOps(nh) ==
  {NoOp} \cup {[kind |-> "on", fn |-> g, h |-> 0] : g \in Fns}
         \cup {[kind |-> "off", fn |-> Empty, h |-> i] : i \in 1..nh}
NoBusOps == [f \in Fns \cup {EngineFn} |-> NoOp]

Compact(entries) == SelectSeq(entries, LAMBDA x : x # Empty)

\* listeners.add(fn): a Set keeps one entry per value, in insertion order.
SetAdd(entries, fn) ==
  IF fn \in Range(entries) THEN entries ELSE Append(entries, fn)

\* A delete that removes nothing.
SetDeleteNothing(entries, fn) == entries

\* listeners.delete(fn): the entry is emptied; a running forEach skips it.
SetDelete(entries, fn) ==
  [i \in DOMAIN entries |-> IF entries[i] = fn THEN Empty ELSE entries[i]]

\* on: (fn) => { listeners.add(fn); return () => { listeners.delete(fn); }; }
BusOn(st, fn) ==
  [st EXCEPT !.entries = SetAdd(@, fn),
             !.handles = Append(@, [fn |-> fn, called |-> FALSE]),
             !.added = @ \cup {fn}]

\* () => { listeners.delete(fn); }
BusOff(st, h) ==
  IF h > Len(st.handles) THEN st
  ELSE [st EXCEPT !.entries = SetDelete(@, st.handles[h].fn),
                  !.handles[h].called = TRUE,
                  !.removed = @ \cup {st.handles[h].fn}]

\* l(payload) for one listener l
Invoke(st, f, beh) ==
  LET st1 == [st EXCEPT !.calls = Append(@, f)]
      op == beh[f]
  IN  IF op.kind = "on" THEN BusOn(st1, op.fn)
      ELSE IF op.kind = "off" THEN BusOff(st1, op.h)
      ELSE st1

\* listeners.forEach((l) => l(payload)): Set.prototype.forEach walks the
\* entry list by position until it passes the end, skipping emptied entries
\* and visiting entries appended while it runs.
RECURSIVE ForEach(_, _, _, _)
ForEach(st, i, beh, fuel) ==
  IF i > Len(st.entries) THEN st
  ELSE IF st.entries[i] = Empty THEN ForEach(st, i + 1, beh, fuel)
  ELSE IF fuel = 0 THEN [st EXCEPT !.ok = FALSE]
  ELSE ForEach(Invoke(st, st.entries[i], beh), i + 1, beh, fuel - 1)

BusState ==
  [entries |-> listeners, handles |-> handles, calls |-> <<>>,
   added |-> {}, removed |-> {}, ok |-> TRUE]

Count(s, x) == Cardinality({i \in DOMAIN s : s[i] = x})

\* ------------------------------------------------------------ timers

\* The id setInterval returns: one no active interval has.  A cleared id is
\* given out again; every cleanup that holds an id runs once, before the
\* effect that made it runs again.
NewId(ts) ==
  CHOOSE n \in 1..(Cardinality(ts) + 1) : \A t \in ts : t.id # n

\* setInterval(fn, 1000)
SetInterval(ts, fn) == ts \cup {[id |-> NewId(ts), fn |-> fn, wait |-> Period]}

\* A clearInterval that clears nothing.
ClearIntervalNothing(ts, id) == ts

\* clearInterval(id)
ClearInterval(ts, id) == {t \in ts : t.id # id}

\* The intervals whose callback is fn.
Active(fn) == {t \in timers : t.fn = fn}

\* An interval with callback fn is due.
Due(fn) == \E t \in Active(fn) : t.wait = 0

\* An interval that has fired waits a whole period again.
Rearm(ts, fn) ==
  {IF t.fn = fn /\ t.wait = 0 THEN [t EXCEPT !.wait = Period] ELSE t : t \in ts}

\* ------------------------------------------------------------- Init

Init ==
  /\ mounted = FALSE
  /\ quiet = FALSE
  /\ score = 0
  /\ scoreQ = <<>>
  /\ indicators = [k \in IndicatorKeys |-> FALSE]
  /\ indQ = <<>>
  /\ history = <<>>
  /\ histQ = <<>>
  /\ ticks = 0
  /\ emitted = 0
  /\ simRun = 0
  /\ notice = FALSE
  /\ listeners = <<>>
  /\ handles = <<>>
  /\ delivery = [atCall |-> <<>>, calls |-> <<>>, added |-> {}, removed |-> {}]
  /\ timers = {}
  /\ cleanup = [decay |-> 0, history |-> 0, off |-> 0]
  /\ sinceSample = 0
  /\ payment = [amount |-> 0, emits |-> <<>>]

\* ----------------------------------------------------------- actions

\* PageShell mounts: the hooks of useRiskEngine take their initial values
\* and its effects run: the first starts the decay interval, the second the
\* history interval, the third subscribes the engine's listener to the bus.
Mount ==
  LET decay == SetInterval(timers, "decay")
      both == SetInterval(decay, "history")
  IN  /\ ~mounted
      /\ Len(handles) < MaxHandles
      /\ mounted' = TRUE
      /\ score' = 0
      /\ scoreQ' = <<>>
      /\ indicators' = [k \in IndicatorKeys |-> FALSE]
      /\ indQ' = <<>>
      /\ history' = <<>>
      /\ histQ' = <<>>
      /\ ticks' = 0
      /\ notice' = FALSE
      /\ simRun' = 0
      /\ timers' = both
      /\ cleanup' = [decay |-> NewId(timers), history |-> NewId(decay),
                     off |-> Len(handles) + 1]
      /\ sinceSample' = 0
      /\ listeners' = SetAdd(listeners, EngineFn)
      /\ handles' = Append(handles, [fn |-> EngineFn, called |-> FALSE])
      /\ UNCHANGED <<quiet, emitted, delivery, payment>>

\* PageShell unmounts: the cleanups of the three effects run, clearInterval
\* on each interval id and the handle bus.on returned.
Unmount ==
  LET st == BusOff(BusState, cleanup.off)
  IN  /\ mounted
      /\ mounted' = FALSE
      /\ timers' = ClearInterval(ClearInterval(timers, cleanup.decay),
                                 cleanup.history)
      /\ listeners' = Compact(st.entries)
      /\ handles' = st.handles
      /\ UNCHANGED <<quiet, engineVars, emitted, simRun, delivery, cleanup,
                     sinceSample, payment>>

\* The engine's listener, run n times: setScore and setIndicators each time.
RECURSIVE Repeat(_, _)
Repeat(x, n) == IF n = 0 THEN <<>> ELSE <<x>> \o Repeat(x, n - 1)

NextSimRun(type, n) ==
  IF n = 0 THEN simRun
  ELSE IF type # "SIM_SWAP" THEN 0
  ELSE IF CurScore = 0 THEN Min(n, MaxSimRun)
  ELSE IF simRun > 0 THEN Min(simRun + n, MaxSimRun)
  ELSE 0

\* bus.emit(type, meta): every listener of the Set is invoked with the
\* payload; beh says what each callback other than the engine's does to the
\* bus when invoked.
\* At most cap calls are queued on a hook between two renders.
EmitWithin(type, beh, cap) ==
  LET run == ForEach(BusState, 1, beh, MaxDeliveries)
      n == Count(run.calls, EngineFn)
  IN  /\ ~quiet
      /\ run.ok
      /\ Len(run.handles) <= MaxHandles
      /\ Len(scoreQ) + n <= cap
      /\ Len(indQ) + n <= cap
      /\ listeners' = Compact(run.entries)
      /\ handles' = run.handles
      /\ delivery' = [atCall |-> listeners, calls |-> run.calls,
                      added |-> run.added, removed |-> run.removed]
      /\ scoreQ' = scoreQ \o Repeat([op |-> "add", w |-> Weights[type]], n)
      /\ indQ' = indQ \o Repeat([op |-> "set", k |-> type, on |-> "true"], n)
      /\ simRun' = NextSimRun(type, n)
      /\ emitted' = Min(emitted + 1, MaxHistEvents)
      /\ UNCHANGED <<mounted, quiet, score, indicators, history, histQ, ticks,
                     notice, timerVars>>

Emit(type, beh) == EmitWithin(type, beh, MaxPending) /\ UNCHANGED payment

\* A test that also takes the threshold itself for a large transfer.
isLargeTransferFromThreshold(amount) == amount >= largeTransfer

\* amount > riskConfig.thresholds.largeTransfer
isLargeTransfer(amount) == amount > largeTransfer

\* PaymentsPage.submit with the amount typed in: an amount above the
\* threshold is emitted as a LARGE_TRANSFER event.
submit(amount) ==
  /\ mounted
  /\ IF isLargeTransfer(amount)
       THEN /\ EmitWithin("LARGE_TRANSFER", NoBusOps, MaxPending)
            /\ payment' =
                 [amount |-> amount,
                  emits |-> <<[type |-> "LARGE_TRANSFER",
                               meta |-> [amount |-> amount]]>>]
       ELSE /\ payment' = [amount |-> amount, emits |-> <<>>]
            /\ UNCHANGED <<mounted, quiet, engineVars, emitted, simRun,
                           busVars, timerVars>>

\* bus.on(fn), called by a client outside any emit; the handle it returns is
\* kept.
On(fn) ==
  LET st == BusOn(BusState, fn)
  IN  /\ Len(handles) < MaxHandles
      /\ listeners' = Compact(st.entries)
      /\ handles' = st.handles
      /\ UNCHANGED <<mounted, quiet, engineVars, emitted, simRun, delivery,
                     timerVars, payment>>

\* The unsubscribe handle h, called by a client outside any emit.
CallHandle(h) ==
  LET st == BusOff(BusState, h)
  IN  /\ h \in DOMAIN handles
      /\ listeners' = Compact(st.entries)
      /\ handles' = st.handles
      /\ UNCHANGED <<mounted, quiet, engineVars, emitted, simRun, delivery,
                     timerVars, payment>>

\* The decay interval fires: setScore((s) => Math.max(0, Math.round(s * 0.9)))
\* At most cap calls are queued on the hook between two renders.
DecayTickWithin(cap) ==
  /\ Active("decay") # {}
  /\ Len(scoreQ) < cap
  /\ scoreQ' = Append(scoreQ, [op |-> "decay", w |-> 0])
  /\ simRun' = 0
  /\ timers' = Rearm(timers, "decay")
  /\ UNCHANGED <<mounted, quiet, score, indicators, indQ, history, histQ,
                 ticks, emitted, notice, busVars, cleanup, sinceSample,
                 payment>>

DecayTick == DecayTickWithin(MaxPending)

\* The history interval fires: setHistory((h) => [...h, { t, v: score }]
\* .slice(-60)), with the score of the render that created the interval.  The
\* timestamp is the tick's ordinal.
HistoryTick ==
  /\ Active("history") # {}
  /\ ticks < MaxTicks
  /\ Len(histQ) < MaxPending
  /\ ticks' = ticks + 1
  /\ histQ' = Append(histQ, [t |-> ticks + 1, v |-> score])
  /\ timers' = Rearm(timers, "history")
  /\ sinceSample' = 0
  /\ UNCHANGED <<mounted, quiet, score, scoreQ, indicators, indQ, history,
                 emitted, simRun, notice, busVars, cleanup, payment>>

\* The value toggleIndicator tests for the toast: on ?? !indicators[key], on
\* the indicators of the last render.
ToastValue(key, on) ==
  IF on = "undefined" THEN ~indicators[key] ELSE on = "true"

\* toggleIndicator(key, on): on is true, false or left out.  At most cap
\* calls are queued on the hook between two renders.
toggleIndicatorWithin(key, on, cap) ==
  /\ mounted
  /\ Len(indQ) < cap
  /\ indQ' = Append(indQ, [op |-> "toggle", k |-> key, on |-> on])
  /\ notice' = (key = "VPN" /\ ToastValue(key, on))
  /\ UNCHANGED <<mounted, quiet, score, scoreQ, indicators, history, histQ,
                 ticks, emitted, simRun, busVars, timerVars, payment>>

toggleIndicator(key, on) == toggleIndicatorWithin(key, on, MaxPending)

\* The producers stop: no event is emitted from here on.
Quiesce ==
  /\ ~quiet
  /\ quiet' = TRUE
  /\ UNCHANGED <<mounted, engineVars, emitted, simRun, busVars, timerVars,
                 payment>>

\* React renders useRiskEngine: every hook's queue is folded into its value.
\* When the score has changed, the history effect (deps [score]) runs again:
\* its cleanup clears the interval it made and a new interval is started.
Render ==
  LET cleared == ClearInterval(timers, cleanup.history)
  IN  /\ mounted
      /\ scoreQ # <<>> \/ indQ # <<>> \/ histQ # <<>>
      /\ score' = CurScore
      /\ indicators' = CurInd
      /\ history' = CurHist
      /\ scoreQ' = <<>>
      /\ indQ' = <<>>
      /\ histQ' = <<>>
      /\ IF CurScore # score
           THEN /\ timers' = SetInterval(cleared, "history")
                /\ cleanup' = [cleanup EXCEPT !.history = NewId(cleared)]
           ELSE UNCHANGED <<timers, cleanup>>
      /\ UNCHANGED <<mounted, quiet, ticks, emitted, simRun, notice, busVars,
                     sinceSample, payment>>

\* One time unit passes.  No interval is due (a due callback runs before
\* more time passes) and no update is waiting for a render.
Advance ==
  /\ timers # {}
  /\ \A t \in timers : t.wait > 0
  /\ scoreQ = <<>> /\ indQ = <<>> /\ histQ = <<>>
  /\ timers' = {[t EXCEPT !.wait = @ - 1] : t \in timers}
  /\ sinceSample' = Min(sinceSample + 1, Period + 1)
  /\ UNCHANGED <<mounted, quiet, engineVars, emitted, simRun, busVars,
                 cleanup, payment>>

\* ---------------------------------------------------- specifications

\* The score: events of every type, decay ticks and renders.
NextScore ==
  \/ Mount
  \/ \E type \in EventTypes : Emit(type, NoBusOps)
  \/ DecayTick
  \/ Render

SpecScore == Init /\ [][NextScore]_vars

\* The history: ticks up to MaxTicks, with renders and up to MaxHistEvents
\* transfers in between.
HistEventTypes == {"LARGE_TRANSFER"}

NextHist ==
  \/ Mount
  \/ \E type \in HistEventTypes :
       emitted < MaxHistEvents /\ Emit(type, NoBusOps)
  \/ HistoryTick
  \/ Render

SpecHist == Init /\ [][NextHist]_vars

\* The indicators: events of every type, manual toggles and renders.
OnArgs == {"true", "false", "undefined"}

NextInd ==
  \/ Mount
  \/ \E type \in EventTypes : Emit(type, NoBusOps)
  \/ \E key \in IndicatorKeys, on \in OnArgs : toggleIndicator(key, on)
  \/ Render

SpecInd == Init /\ [][NextInd]_vars

\* The decay once the producers have stopped.  setInterval fires the decay
\* callback every second for as long as the engine is mounted, and React
\* renders every queued update: both are weakly fair.
DecayEventTypes == {"LARGE_TRANSFER", "TYPING_ANOMALY"}

NextDecay ==
  \/ Mount
  \/ \E type \in DecayEventTypes : Emit(type, NoBusOps)
  \/ Quiesce
  \/ DecayTick
  \/ Render

SpecDecay ==
  Init /\ [][NextDecay]_vars /\ WF_vars(DecayTick) /\ WF_vars(Render)

\* The payments page: transfers of amounts below, at and above the threshold,
\* with decay ticks and renders in between.
Amounts == {0, 40000, 50000, 50001, 60000}

NextPay ==
  \/ Mount
  \/ \E amount \in Amounts : submit(amount)
  \/ DecayTick
  \/ Render

SpecPay == Init /\ [][NextPay]_vars

\* The engine in time: time passes in units of 1000/Period ms, each interval
\* fires when it is due, up to MaxHistEvents events arrive at any moment, and
\* PageShell may unmount and mount again.
TimerEventTypes == {"TYPING_ANOMALY"}

NextTimers ==
  \/ Mount
  \/ Unmount
  \/ Advance
  \/ \E type \in TimerEventTypes :
       emitted < MaxHistEvents /\ Emit(type, NoBusOps)
  \/ Due("decay") /\ DecayTick
  \/ Due("history") /\ ticks < MaxFewTicks /\ HistoryTick
  \/ Render

SpecTimers == Init /\ [][NextTimers]_vars

\* Batched score updates: up to MaxBatch events and decay ticks queue their
\* updaters before React renders.
BatchEventTypes == {"SIM_SWAP", "TYPING_ANOMALY"}

NextBatch ==
  \/ Mount
  \/ \E type \in BatchEventTypes :
       EmitWithin(type, NoBusOps, MaxBatch) /\ UNCHANGED payment
  \/ DecayTickWithin(MaxBatch)
  \/ Render

SpecBatch == Init /\ [][NextBatch]_vars

\* The indicators with everything that runs beside them: events of two
\* types, manual toggles of the VPN indicator, decay ticks, history ticks
\* and renders.
StickyEventTypes == {"VPN", "SIM_SWAP"}

NextSticky ==
  \/ Mount
  \/ \E type \in StickyEventTypes : Emit(type, NoBusOps)
  \/ \E on \in OnArgs : toggleIndicator("VPN", on)
  \/ DecayTick
  \/ ticks < MaxFewTicks /\ HistoryTick
  \/ Render

SpecSticky == Init /\ [][NextSticky]_vars

\* The VPN notice: VPN events and manual toggles of two indicators, up to
\* MaxBatch of them queued before React renders.
NoticeEventTypes == {"VPN"}
NoticeKeys == {"VPN", "SIM_SWAP"}

NextNotice ==
  \/ Mount
  \/ \E type \in NoticeEventTypes :
       EmitWithin(type, NoBusOps, MaxBatch) /\ UNCHANGED payment
  \/ \E key \in NoticeKeys, on \in OnArgs :
       toggleIndicatorWithin(key, on, MaxBatch)
  \/ Render

SpecNotice == Init /\ [][NextNotice]_vars

\* The bus with clients of its own: callbacks are subscribed, handles are
\* called, and an emit invokes callbacks that may themselves subscribe a
\* callback or call a handle.
BusEventTypes == {"VPN"}
\* One behaviour for each registered callback; the engine's listener does
\* nothing to the bus.
Behaviours ==
  LET registered == Range(listeners) \cap Fns
  IN  {[f \in Fns \cup {EngineFn} |-> IF f \in registered THEN b[f] ELSE NoOp] :
         b \in [registered -> BusOps(Len(handles))]}

NextBus ==
  \/ \E fn \in Fns : On(fn)
  \/ \E h \in 1..MaxHandles : CallHandle(h)
  \/ \E type \in BusEventTypes, beh \in Behaviours : Emit(type, beh)

SpecBus == Init /\ [][NextBus]_vars

\* -------------------------------------------------------------- claims

\* C1: in every reachable state the score is an integer in 0..100: the
\* rendered score, the score the hook holds once its queued updaters have
\* run, and every value in between.
C1_ScoreInRange ==
  /\ score \in 0..100
  /\ \A n \in 0..Len(scoreQ) : FoldScore(SubSeq(scoreQ, 1, n), score) \in 0..100

\* An event received at score 100: the clamp has acted.
C1_Witness ==
  /\ score = 100
  /\ scoreQ # <<>>
  /\ scoreQ[1].op = "add"
  /\ CurScore = 100

\* The weights as the claim gives them.
ClaimWeights ==
  [SIM_SWAP |-> 30, VPN |-> 25, DEVICE_CHANGE |-> 20, LOCATION_MISMATCH |-> 15,
   TYPING_ANOMALY |-> 10, LARGE_TRANSFER |-> 35]

\* C2: an event of type T received at score s makes the score
\* min(100, s + weight[T]), and a render shows that score; from score 0,
\* with no tick in between, one SIM_SWAP gives 30, two give 60, four give 100.
C2_EventAddsWeight ==
  /\ [](/\ simRun = 1 => CurScore = 30
        /\ simRun = 2 => CurScore = 60
        /\ simRun = 4 => CurScore = 100)
  /\ [][/\ \A type \in EventTypes :
             Emit(type, NoBusOps) /\ EngineFn \in Range(listeners)
               => CurScore' = Min(100, CurScore + ClaimWeights[type])
        /\ Render => score' = CurScore]_vars

\* Four SIM_SWAP events in a row from score 0, rendered.
C2_Witness == simRun = 4 /\ score = 100 /\ scoreQ = <<>>

\* C3 as stated: a decay tick at score s gives round(s x 0.9), 90 at 100 and
\* 4 at 5.
C3_DecayAsStated ==
  [][DecayTick =>
       /\ 10 * CurScore' - 9 * CurScore \in -5..5
       /\ CurScore = 100 => CurScore' = 90
       /\ CurScore = 5 => CurScore' = 4]_vars

\* C3, amended: a decay tick at score s gives the integer nearest to
\* s x 0.9, a half rounded up (Math.round), within 0..100: 90 at 100 and 5
\* at 5.
C3_DecayRoundsHalfUp ==
  [][DecayTick =>
       /\ 10 * CurScore' - 9 * CurScore \in -4..5
       /\ CurScore' \in 0..100
       /\ CurScore = 100 => CurScore' = 90
       /\ CurScore = 5 => CurScore' = 5]_vars

\* A decay tick has fired at score 5.
C3_Witness == score = 5 /\ scoreQ = <<[op |-> "decay", w |-> 0]>>

C5_HistoryFifo ==
  LET n == ticks - Len(histQ)
  IN  /\ Len(history) <= 60
      /\ Len(CurHist) <= 60
      /\ Len(history) = Min(n, 60)
      /\ Len(CurHist) = Min(ticks, 60)
      /\ \A i \in DOMAIN history : history[i].t = n - Len(history) + i
      /\ \A i \in DOMAIN CurHist : CurHist[i].t = ticks - Len(CurHist) + i
      /\ n = 100 => Len(history) = 60 /\ history[1].t = 41

\* 100 history ticks have fired and been rendered.
C5_Witness ==
  /\ ticks = 100
  /\ histQ = <<>>
  /\ Len(history) = 60
  /\ history[1].t = 41
  /\ history[60].t = 100

\* C6: the indicator mapping always has exactly the five indicator keys; an
\* event of one of the five types sets its entry to true and leaves the
\* others unchanged, and a LARGE_TRANSFER event leaves the mapping unchanged.
C6_FiveIndicators ==
  [][/\ DOMAIN CurInd' = IndicatorKeys
     /\ DOMAIN indicators' = IndicatorKeys
     /\ \A type \in EventTypes :
          Emit(type, NoBusOps) /\ EngineFn \in Range(listeners)
            => CurInd' = (IF type \in IndicatorKeys
                            THEN [CurInd EXCEPT ![type] = TRUE]
                            ELSE CurInd)]_vars

\* C7: toggleIndicator(K, v) sets indicators[K] to v, or to the negation of
\* its current value when v is left out, leaves every other indicator
\* unchanged and never changes the score or the history; a render shows the
\* indicators so set.
C7_ToggleOnlyIndicator ==
  [][/\ \A key \in IndicatorKeys, on \in OnArgs :
          toggleIndicator(key, on)
            => /\ DOMAIN CurInd' = DOMAIN CurInd
               /\ CurInd'[key] =
                    (IF on = "true" THEN TRUE
                     ELSE IF on = "false" THEN FALSE
                     ELSE ~CurInd[key])
               /\ \A k \in DOMAIN CurInd \ {key} : CurInd'[k] = CurInd[k]
               /\ UNCHANGED <<score, scoreQ, history, histQ>>
               /\ CurScore' = CurScore
               /\ CurHist' = CurHist
     /\ Render => indicators' = CurInd]_vars

\* toggleIndicator("VPN") with no value, called with VPN set by an event and
\* a positive score.
C7_Witness ==
  /\ score > 0
  /\ indicators["VPN"]
  /\ indQ = <<[op |-> "toggle", k |-> "VPN", on |-> "undefined"]>>
  /\ ~CurInd["VPN"]

\* C8: a call of a listener's unsubscribe handle leaves that listener
\* unregistered; an emit invokes no callback that was neither registered when
\* emit was called nor subscribed during it, and invokes exactly once every
\* listener that was registered and not unsubscribed during the emit.
C8_NoDeliveryAfterUnsubscribe ==
  /\ [](/\ Range(delivery.calls) \subseteq
             Range(delivery.atCall) \cup delivery.added
        /\ \A f \in Range(delivery.atCall) \ delivery.removed :
             Count(delivery.calls, f) = 1)
  /\ [][\A h \in DOMAIN handles :
          CallHandle(h) => handles[h].fn \notin Range(listeners')]_vars

\* f was subscribed before g and unsubscribed before the last emit, which
\* reached g and not f.
C8_Witness ==
  \E i, j \in DOMAIN handles :
    /\ i < j
    /\ handles[i].called
    /\ handles[i].fn # handles[j].fn
    /\ handles[i].fn \notin Range(delivery.atCall)
    /\ handles[i].fn \notin Range(delivery.calls)
    /\ handles[j].fn \in Range(delivery.atCall)
    /\ handles[j].fn \in Range(delivery.calls)
    /\ delivery.added = {}

\* C9: a call of an unsubscribe handle that has been called before leaves the
\* set of registered listeners unchanged, whatever happened in between.
C9_HandleIdempotent ==
  [][\A h \in DOMAIN handles :
       CallHandle(h) /\ handles[h].called => listeners' = listeners]_vars

\* C10: every emit invokes each listener registered when emit was called
\* exactly once, in the order of registration, also when a listener
\* subscribes or unsubscribes listeners during the emit.
C10_EmitReachesAllRegistered ==
  SelectSeq(delivery.calls, LAMBDA f : f \in Range(delivery.atCall))
    = delivery.atCall

\* The band each colour stands for.
ColourBand(c) ==
  IF c = "var(--risk-red)" THEN "High Risk"
  ELSE IF c = "var(--risk-yellow)" THEN "Caution"
  ELSE IF c = "var(--risk-green)" THEN "Safe" ELSE "none"

\* The band of v as the claim gives it, in each of the places that derive it.
BandExact(v) ==
  /\ bandText(v) \in {"High Risk", "Caution", "Safe"}
  /\ bandText(v) = "High Risk" <=> v >= 70
  /\ bandText(v) = "Caution" <=> (31 <= v /\ v <= 69)
  /\ bandText(v) = "Safe" <=> v <= 30
  /\ ColourBand(panelBandColor(v)) = bandText(v)
  /\ ColourBand(gaugeBandColor(v)) = bandText(v)
  /\ announcedBand(v) = bandText(v)

\* C11: the band of every score the engine shows is High Risk iff the score
\* is at least 70, Caution iff it is in 31..69 and Safe iff it is at most 30
\* (30 Safe, 31 and 69 Caution, 70 High Risk), and the risk panel's text and
\* colour, the gauge's colour and the announcement give the same band.
C11_BandBoundaries ==
  /\ BandExact(score)
  /\ BandExact(CurScore)
  /\ score = 30 => bandText(score) = "Safe"
  /\ score = 31 => bandText(score) = "Caution"
  /\ score = 69 => bandText(score) = "Caution"
  /\ score = 70 => bandText(score) = "High Risk"

\* The score 70 is rendered: the band is High Risk and the gauge is red.
C11_Witness ==
  /\ score = 70
  /\ scoreQ = <<>>
  /\ bandText(score) = "High Risk"
  /\ gaugeBandColor(score) = "var(--risk-red)"

\* C12: a submitted payment emits exactly one LARGE_TRANSFER event, with
\* the amount, when the amount is above 50000, and the engine then receives
\* that one event; a payment of 50000 or less (40000, 50000) emits nothing
\* and leaves the score, the indicators and the bus as they are.  The
\* threshold stays 50000.
C12_LargeTransferAboveThreshold ==
  /\ [](largeTransfer = 50000)
  /\ [][\A amount \in Amounts :
          submit(amount) =>
            /\ payment'.amount = amount
            /\ IF amount > 50000
                 THEN /\ payment'.emits =
                           <<[type |-> "LARGE_TRANSFER",
                              meta |-> [amount |-> amount]]>>
                      /\ delivery'.calls = <<EngineFn>>
                      /\ scoreQ' = Append(scoreQ, [op |-> "add", w |-> 35])
                      /\ CurScore' = Min(100, CurScore + 35)
                 ELSE /\ payment'.emits = <<>>
                      /\ UNCHANGED <<score, scoreQ, indicators, indQ, busVars>>
                      /\ CurScore' = CurScore]_vars

\* A payment of exactly 50000 submitted at the rendered score 35: nothing
\* is emitted and no update is queued.
C12_Witness ==
  /\ payment = [amount |-> 50000, emits |-> <<>>]
  /\ score = 35
  /\ scoreQ = <<>>
  /\ indQ = <<>>

\* C13: the sample a history tick appends carries the score the engine holds
\* when the tick fires, an update not yet rendered included.
C13_SampleIsCurrentScore ==
  [][HistoryTick => histQ'[Len(histQ')].v = CurScore]_vars

\* C14: while the engine is mounted every elapsed interval appends a history
\* sample, whatever changes the score in between: no more than one interval
\* has passed since the last sample (or since the mount).
C14_OneSamplePerInterval == mounted => sinceSample <= Period

\* One update as it is issued: an event adds its weight up to 100, a decay
\* tick takes the score to the nearest integer of nine tenths of it.
IssuedUpdate(u, s) ==
  IF u.op = "add" THEN Min(100, s + u.w) ELSE Max(0, (9 * s + 5) \div 10)

\* The updates of q applied to s one after another, the first issued first.
RECURSIVE InIssueOrder(_, _)
InIssueOrder(q, s) ==
  IF q = <<>> THEN s
  ELSE IssuedUpdate(q[Len(q)], InIssueOrder(SubSeq(q, 1, Len(q) - 1), s))

\* C15: no score update is lost: every event received and every decay tick
\* queues its update behind those issued before it, and a render gives the
\* score that results from applying the queued updates one after another, in
\* the order they were issued, to the score held before them.
C15_NoLostUpdate ==
  [][/\ Render => score' = InIssueOrder(scoreQ, score)
     /\ DecayTickWithin(MaxBatch)
          => /\ scoreQ' = Append(scoreQ, [op |-> "decay", w |-> 0])
             /\ CurScore' = IssuedUpdate([op |-> "decay", w |-> 0], CurScore)
             /\ score' = score
     /\ \A type \in BatchEventTypes :
          EmitWithin(type, NoBusOps, MaxBatch) /\ mounted
            => /\ scoreQ' = Append(scoreQ, [op |-> "add", w |-> Weights[type]])
               /\ CurScore' =
                    IssuedUpdate([op |-> "add", w |-> Weights[type]], CurScore)
               /\ score' = score]_vars

\* An event and then a decay tick are queued before a render, at a score where
\* the other order, or the decay alone, would give another result.
C15_Witness ==
  /\ Len(scoreQ) = 2
  /\ scoreQ[1].op = "add"
  /\ scoreQ[2].op = "decay"
  /\ CurScore # FoldScore(<<scoreQ[2], scoreQ[1]>>, score)
  /\ CurScore # ApplyScore(scoreQ[2], score)

\* C16: while the engine is mounted exactly one decay interval, one history
\* interval and one bus listener of the engine are active, also after the
\* history interval has been made again on a score change; once it is
\* unmounted none is, and no later step (a tick, an emit) changes the score,
\* the history or the indicators.
C16_NoLeak ==
  /\ [](/\ mounted => /\ Cardinality(Active("decay")) = 1
                      /\ Cardinality(Active("history")) = 1
                      /\ Cardinality(timers) = 2
                      /\ Count(listeners, EngineFn) = 1
        /\ ~mounted => /\ timers = {}
                       /\ EngineFn \notin Range(listeners))
  /\ [][~mounted /\ ~mounted'
          => UNCHANGED <<score, scoreQ, indicators, indQ, history, histQ>>]_vars

\* The engine has been unmounted after an event changed its score (so that
\* the history interval was made again) and a history tick fired.
C16_Witness ==
  /\ ~mounted
  /\ score > 0
  /\ ticks >= 1
  /\ timers = {}
  /\ EngineFn \notin Range(listeners)
  /\ cleanup.off \in DOMAIN handles
  /\ handles[cleanup.off].called

\* C17: an indicator that is true stays true until a manual toggleIndicator
\* call on it sets it to false (false given, or no value given): no event,
\* decay tick, history tick or change of the score resets it, and a render
\* shows it false only when such a toggle was queued.
C17_IndicatorsSticky ==
  [][/\ DOMAIN CurInd \subseteq DOMAIN CurInd'
     /\ DOMAIN indicators \subseteq DOMAIN indicators'
     /\ \A k \in DOMAIN CurInd :
          CurInd[k] /\ ~CurInd'[k]
            => \E on \in {"false", "undefined"} : toggleIndicator(k, on)
     /\ \A k \in DOMAIN indicators :
          indicators[k] /\ ~indicators'[k]
            => /\ Render
               /\ \E i \in DOMAIN indQ :
                    /\ indQ[i].op = "toggle"
                    /\ indQ[i].k = k
                    /\ indQ[i].on # "true"]_vars

\* VPN and SIM_SWAP, set by their events, are still set after a history tick
\* and after decay ticks have taken the score from 55 down to 5.
C17_Witness ==
  /\ indicators["VPN"]
  /\ indicators["SIM_SWAP"]
  /\ score = 5
  /\ Len(history) = 1
  /\ scoreQ = <<>>
  /\ indQ = <<>>
  /\ ~notice

\* C18: a toggleIndicator call raises the VPN notice exactly when its key is
\* VPN and the value indicators.VPN takes as a result of the call is true,
\* also when the call follows another toggle or a VPN event that has not been
\* rendered yet.
C18_NoticeIffVpnOn ==
  [][\A key \in NoticeKeys, on \in OnArgs :
       toggleIndicatorWithin(key, on, MaxBatch)
         => notice' = (key = "VPN" /\ CurInd'["VPN"])]_vars

====
